---- MODULE Spec2Model ----
(***************************************************************************)
(* A model of libgevent's event base (gear-lib/libgevent/libgevent.c):     *)
(* the base's life cycle, the registry of tracked events, the self-pipe    *)
(* wakeup and the dispatch loop run by a worker thread.                    *)
(*                                                                         *)
(* Threads: "main" calls the API one operation at a time (pc), "aux" is a  *)
(* second application thread that signals and breaks the loop (apc), and   *)
(* the worker thread runs gevent_base_loop (wpc).                          *)
(*                                                                         *)
(* The backend (ops->add/del/dispatch/init/deinit), the dynamic array      *)
(* (da_push_back, da_erase_item) and the thread helper (thread_create,     *)
(* thread_join, thread_destroy) are not part of libgevent.c; they are      *)
(* modelled from their documented contract.                                *)
(***************************************************************************)
EXTENDS Integers, Sequences, FiniteSets, TLC

\* ------------------------------------------------------------------ bounds
\* Number of user events the application creates.
MaxEvents == 2
\* Number of wakeup bytes written (signal, break); far below the pipe's
\* capacity, so that write(2) on the blocking write end never blocks.
MaxWakeups == 2
\* Number of entries the registry holds (the internal event included).
MaxArray == 3
\* Number of periods that elapse on one timer descriptor.
MaxFires == 2

\* --------------------------------------------------------------- pointers
NULL == 0
\* A pointer value that is no event of the program (what an out-of-bounds
\* read may yield).
WILD == -1
Events == 1..MaxEvents
\* The internal wakeup event allocated by gevent_base_create.
InnerEv == MaxEvents + 1
Heap == Events \cup {InnerEv}
Ptr == Heap \cup {NULL}

\* enum gevent_backend_type and the backend table of the Linux build.
GEVENT_SELECT == 0
GEVENT_POLL == 1
GEVENT_EPOLL == 2
GEVENT_BACKEND == GEVENT_EPOLL
gevent_backend_list ==
    [i \in {GEVENT_SELECT, GEVENT_POLL, GEVENT_EPOLL} |->
        CASE i = GEVENT_SELECT -> "selectops"
          [] i = GEVENT_POLL -> "pollops"
          [] OTHER -> "epollops"]

VARIABLES
    base,        \* the struct gevent_base: "none", "live", "freed", "failed"
    rfd, wfd,    \* the pipe's descriptors: "none", "open", "closed"
    ctx,         \* eb->ctx: "none", "open", "released"
    loop,        \* eb->loop
    pipeBytes,   \* unread bytes in the wakeup pipe
    ev_array,    \* eb->ev_array, the registry: a sequence of pointers
    inner_event, \* eb->inner_event
    thread,      \* eb->thread: "null", "valid", "destroyed" (dangling)
    ev,          \* the heap of struct gevent: [st, cb, flags] per pointer
    tfd,         \* the timer descriptor of each user event
    registered,  \* the events the backend watches (ops->add / ops->del)
    ready,       \* user events whose descriptor is ready
    pc,          \* main thread
    apc,         \* aux thread
    wpc,         \* worker thread: "none", "check", "dispatch", "exited"
    ret,         \* result of the main thread's last call
    signals,     \* the gevent_base_signal calls that have written their byte
    faults,      \* undefined behaviour and contract breaches seen so far
    track,       \* the round trip's record of each user event: "never",
                 \* "added" (tracked), "removed" (tracked, then removed)
    torn,        \* the user events in the registry when teardown began
    drain_log,   \* the pointers teardown's drain loop passed to free()
    expirations, \* how often each timer event's descriptor has expired
    cb_count     \* how often each timer event's callback has been invoked

vars == <<base, rfd, wfd, ctx, loop, pipeBytes, ev_array, inner_event, thread,
          ev, tfd, registered, ready, pc, apc, wpc, ret, signals, faults, track,
          torn, drain_log, expirations, cb_count>>

baseVars == <<base, rfd, wfd, ctx, loop, inner_event>>

\* ------------------------------------------------------------ event flags
EVENT_READ == "EVENT_READ"
EVENT_WRITE == "EVENT_WRITE"
EVENT_ERROR == "EVENT_ERROR"
EVENT_PERSIST == "EVENT_PERSIST"
TIMER_ONESHOT == "TIMER_ONESHOT"
TIMER_PERSIST == "TIMER_PERSIST"

\* struct itimerspec of an event that has no timer: both fields zero. A
\* non-zero time is the period the timer was created with.
NoTimer == [it_value |-> 0, it_interval |-> 0]
Period == 1

NoEvent == [st |-> "unalloc", cb |-> {}, flags |-> {}, itimer |-> NoTimer]

\* The struct gevent that gevent_create fills in.
gevent_create_obj(ev_in, ev_out, ev_err) ==
    [st |-> "live",
     cb |-> (IF ev_in THEN {"ev_in"} ELSE {})
            \cup (IF ev_out THEN {"ev_out"} ELSE {})
            \cup (IF ev_err THEN {"ev_err"} ELSE {}),
     flags |-> (IF ev_in THEN {EVENT_READ} ELSE {})
               \cup (IF ev_out THEN {EVENT_WRITE} ELSE {})
               \cup (IF ev_err THEN {EVENT_ERROR} ELSE {})
               \cup {EVENT_PERSIST},
     itimer |-> NoTimer]

\* gevent_timer_create that sets EVENT_PERSIST whatever the type.
gevent_timer_obj_always_persist(type) ==
    [st |-> "live",
     cb |-> {"ev_timer"},
     flags |-> {EVENT_READ} \cup {EVENT_PERSIST},
     itimer |-> [it_value |-> Period, it_interval |-> Period]]

\* The struct gevent that gevent_timer_create fills in.
gevent_timer_obj(type) ==
    [st |-> "live",
     cb |-> {"ev_timer"},
     flags |-> IF type = TIMER_PERSIST
               THEN {EVENT_READ} \cup {EVENT_PERSIST}
               ELSE IF type = TIMER_ONESHOT
               THEN {EVENT_READ} \ {EVENT_PERSIST}
               ELSE {EVENT_READ},
     itimer |-> [it_value |-> Period, it_interval |-> Period]]

IsTimer(e) == "ev_timer" \in ev[e].cb

\* free(p) on the event heap: NULL is a no-op, a live object is released,
\* anything else is undefined behaviour (recorded in faults).
free_ev(heap, p) ==
    IF p \in Heap /\ heap[p].st = "live"
    THEN [heap EXCEPT ![p].st = "freed"]
    ELSE heap

free_fault(heap, p) ==
    IF p = NULL THEN {}
    ELSE IF p \notin Heap THEN {"invalid_free"}
    ELSE IF heap[p].st = "freed" THEN {"double_free"}
    ELSE IF heap[p].st = "unalloc" THEN {"invalid_free"}
    ELSE {}

\* ---------------------------------------------------------- dynamic array
\* da_push_back(v, item): append the pointed-to element.
da_push_back(arr, item) == Append(arr, item)

RECURSIVE da_find(_, _, _)
da_find(arr, item, i) ==
    IF i > Len(arr) THEN 0
    ELSE IF arr[i] = item THEN i
    ELSE da_find(arr, item, i + 1)

\* da_erase_item(v, item): erase the first element equal to the pointed-to
\* one, keeping the order of the others; nothing when there is none.
da_erase_item(arr, item) ==
    LET idx == da_find(arr, item, 1) IN
    IF idx = 0 THEN arr
    ELSE [i \in 1..(Len(arr) - 1) |-> IF i < idx THEN arr[i] ELSE arr[i + 1]]

\* ---------------------------------------------------------------- backend
\* ops->add(eb, e) and ops->del(eb, e): the watched set changes; a
\* descriptor that is not watched makes del fail.
ops_add_set(reg, e) == IF e = NULL THEN reg ELSE reg \cup {e}
ops_add_ret(reg, e) == IF e = NULL \/ e \in reg THEN -1 ELSE 0
ops_del_set(reg, e) == reg \ {e}
ops_del_ret(reg, e) == IF e \in reg THEN 0 ELSE -1
ops_null_fault(e) == IF e = NULL THEN {"backend_null_event"} ELSE {}

Alive == "null_deref" \notin faults

Init ==
    /\ base = "none" /\ rfd = "none" /\ wfd = "none" /\ ctx = "none"
    /\ loop = FALSE /\ pipeBytes = 0 /\ ev_array = <<>>
    /\ inner_event = NULL /\ thread = "null"
    /\ ev = [p \in Heap |-> NoEvent]
    /\ tfd = [e \in Events |-> "none"]
    /\ registered = {} /\ ready = {}
    /\ pc = "idle" /\ apc = "idle" /\ wpc = "none"
    /\ ret = <<"none", 0>> /\ signals = 0 /\ faults = {}
    /\ track = [e \in Events |-> "never"]
    /\ torn = {} /\ drain_log = <<>>
    /\ expirations = [e \in Events |-> 0]
    /\ cb_count = [e \in Events |-> 0]


\* The result of a call, with the function that returned it.
Ret(fn, v) == <<fn, v>>

\* The wakeup budget: bytes in the pipe plus the writes already begun.
WritesPending ==
    (IF apc = "break_write" THEN 1 ELSE 0)
    + (IF pc \in {"stop_write", "destroy_write"} THEN 1 ELSE 0)
MayWrite == pipeBytes + WritesPending < MaxWakeups

\* The smallest user event not yet allocated (calloc's next object).
Fresh == {e \in Events : ev[e].st = "unalloc" /\ \A f \in Events : f < e => ev[f].st # "unalloc"}

\* ------------------------------------------------------------ base create
\* gevent_base_create(): pipe_ok, calloc_ok and inner_ok are the outcomes of
\* pipe(), calloc() and gevent_create() of the internal event.
gevent_base_create(pipe_ok, calloc_ok, inner_ok) ==
    /\ Alive /\ pc = "idle" /\ base = "none"
    /\ LET ops == gevent_backend_list[GEVENT_BACKEND] IN
       IF ~pipe_ok THEN
           /\ base' = "failed"
           /\ UNCHANGED <<rfd, wfd, ctx, loop, inner_event, ev, ev_array, registered>>
       ELSE IF ~calloc_ok THEN
           /\ base' = "failed" /\ rfd' = "closed" /\ wfd' = "closed"
           /\ UNCHANGED <<ctx, loop, inner_event, ev, ev_array, registered>>
       ELSE IF ops = "" THEN
           \* goto failed: free(eb)
           /\ base' = "failed" /\ rfd' = "open" /\ wfd' = "open"
           /\ UNCHANGED <<ctx, loop, inner_event, ev, ev_array, registered>>
       ELSE IF ~inner_ok THEN
           \* ctx = ops->init(), descriptors stored, then goto failed: free(eb)
           /\ base' = "failed" /\ rfd' = "open" /\ wfd' = "open"
           /\ ctx' = "open"
           /\ UNCHANGED <<loop, inner_event, ev, ev_array, registered>>
       ELSE
           /\ base' = "live" /\ rfd' = "open" /\ wfd' = "open"
           /\ ctx' = "open" /\ loop' = TRUE
           /\ inner_event' = InnerEv
           /\ ev' = [ev EXCEPT ![InnerEv] = gevent_create_obj(TRUE, FALSE, FALSE)]
           \* gevent_add2(eb, &eb->inner_event)
           /\ ev_array' = da_push_back(<<>>, InnerEv)
           /\ registered' = ops_add_set({}, InnerEv)
    /\ ret' = Ret("gevent_base_create", IF pipe_ok /\ calloc_ok /\ inner_ok THEN 1 ELSE NULL)
    /\ UNCHANGED <<pipeBytes, thread, tfd, ready, pc, apc, wpc, signals, faults, track, torn,
                   drain_log, expirations, cb_count>>

\* ----------------------------------------------------------- event create
\* gevent_create(fd, ev_in, ev_out, ev_err, args); ok is calloc's outcome.
gevent_create(ev_in, ev_out, ev_err, ok) ==
    /\ Alive /\ pc = "idle" /\ base \in {"none", "live"}
    /\ \E e \in Fresh :
         IF ok
         THEN /\ ev' = [ev EXCEPT ![e] = gevent_create_obj(ev_in, ev_out, ev_err)]
              /\ ret' = Ret("gevent_create", e)
         ELSE /\ ev' = ev
              /\ ret' = Ret("gevent_create", NULL)
    /\ UNCHANGED <<baseVars, pipeBytes, ev_array, thread, tfd, registered, ready,
                   pc, apc, wpc, signals, faults, track, torn, drain_log, expirations, cb_count>>

\* gevent_timer_create(msec, type, ev_timer, args); outcome names the first
\* call that fails: "calloc", "timerfd_create", "timerfd_settime", or "ok".
gevent_timer_create(type, outcome) ==
    /\ Alive /\ pc = "idle" /\ base \in {"none", "live"}
    /\ \E e \in Fresh :
         CASE outcome = "calloc" ->
                /\ UNCHANGED <<ev, tfd>>
                /\ ret' = Ret("gevent_timer_create", NULL)
           [] outcome = "timerfd_create" ->
                \* failed: free(e)
                /\ ev' = [ev EXCEPT ![e] = [st |-> "freed", cb |-> {"ev_timer"}, flags |-> {}, itimer |-> NoTimer]]
                /\ tfd' = tfd
                /\ ret' = Ret("gevent_timer_create", NULL)
           [] outcome = "timerfd_settime" ->
                \* failed: free(e); fd is not closed
                /\ ev' = [ev EXCEPT ![e] = [st |-> "freed", cb |-> {"ev_timer"}, flags |-> {}, itimer |-> NoTimer]]
                /\ tfd' = [tfd EXCEPT ![e] = "open"]
                /\ ret' = Ret("gevent_timer_create", NULL)
           [] OTHER ->
                /\ ev' = [ev EXCEPT ![e] = gevent_timer_obj(type)]
                /\ tfd' = [tfd EXCEPT ![e] = "open"]
                /\ ret' = Ret("gevent_timer_create", e)
    /\ UNCHANGED <<baseVars, pipeBytes, ev_array, thread, registered, ready,
                   pc, apc, wpc, signals, faults, track, torn, drain_log, expirations, cb_count>>

\* The registry holds p.
InArray(p) == \E i \in 1..Len(ev_array) : ev_array[i] = p

\* gevent_destroy(e) by the owner of an I/O event that is neither tracked
\* nor watched.
gevent_destroy(e) ==
    /\ Alive /\ pc = "idle"
    /\ ev[e].st = "live" /\ ~IsTimer(e)
    /\ ~InArray(e) /\ e \notin registered /\ e \notin torn
    /\ ev' = free_ev(ev, e)
    /\ ret' = Ret("gevent_destroy", 0)
    /\ UNCHANGED <<baseVars, pipeBytes, ev_array, thread, tfd, registered, ready,
                   pc, apc, wpc, signals, faults, track, torn, drain_log, expirations, cb_count>>

\* gevent_timer_destroy(e) by the owner of a timer event: close(e->evfd),
\* free(e).
gevent_timer_destroy(e) ==
    /\ Alive /\ pc = "idle"
    /\ ev[e].st = "live" /\ IsTimer(e)
    /\ ~InArray(e) /\ e \notin registered /\ e \notin torn
    /\ tfd' = [tfd EXCEPT ![e] = "closed"]
    /\ ev' = free_ev(ev, e)
    /\ ret' = Ret("gevent_timer_destroy", 0)
    /\ UNCHANGED <<baseVars, pipeBytes, ev_array, thread, registered, ready,
                   pc, apc, wpc, signals, faults, track, torn, drain_log, expirations, cb_count>>


\* ----------------------------------------------------------- registration
\* gevent_add(eb, e); eb_null: the base argument is NULL.
gevent_add(eb_null, e) ==
    /\ Alive /\ pc = "idle" /\ base = "live"
    /\ IF e = NULL \/ eb_null
       THEN /\ ret' = Ret("gevent_add", -1)
            /\ UNCHANGED registered
       ELSE /\ registered' = ops_add_set(registered, e)
            /\ ret' = Ret("gevent_add", ops_add_ret(registered, e))
    /\ UNCHANGED <<baseVars, pipeBytes, ev_array, thread, ev, tfd, ready,
                   pc, apc, wpc, signals, faults, track, torn, drain_log, expirations, cb_count>>

\* gevent_add2 that keeps the event out of the registry when the backend's
\* add fails.
gevent_add2_rollback(eb_null, h_null, v) ==
    /\ Alive /\ pc = "idle" /\ base = "live"
    /\ IF h_null \/ eb_null
       THEN /\ ret' = Ret("gevent_add2", -1)
            /\ UNCHANGED <<ev_array, registered, faults>>
       ELSE /\ Len(ev_array) < MaxArray
            /\ ev_array' = IF ops_add_ret(registered, v) = 0
                            THEN da_push_back(ev_array, v)
                            ELSE ev_array
            /\ registered' = ops_add_set(registered, v)
            /\ faults' = faults \cup ops_null_fault(v)
            /\ ret' = Ret("gevent_add2", ops_add_ret(registered, v))
    /\ UNCHANGED <<baseVars, pipeBytes, thread, ev, tfd, ready,
                   pc, apc, wpc, signals, torn, drain_log, expirations, cb_count>>

\* gevent_add2(eb, e); h_null: the handle argument e is NULL, otherwise it
\* points to a variable holding v.
gevent_add2(eb_null, h_null, v) ==
    /\ Alive /\ pc = "idle" /\ base = "live"
    /\ IF h_null \/ eb_null
       THEN /\ ret' = Ret("gevent_add2", -1)
            /\ UNCHANGED <<ev_array, registered, faults>>
       ELSE /\ Len(ev_array) < MaxArray
            /\ ev_array' = da_push_back(ev_array, v)
            /\ registered' = ops_add_set(registered, v)
            /\ faults' = faults \cup ops_null_fault(v)
            /\ ret' = Ret("gevent_add2", ops_add_ret(registered, v))
    /\ UNCHANGED <<baseVars, pipeBytes, thread, ev, tfd, ready,
                   pc, apc, wpc, signals, torn, drain_log, expirations, cb_count>>

\* add_tracked: gevent_add2 called by the application.
add_tracked(eb_null, h_null, v) ==
    gevent_add2(eb_null, h_null, v) /\ UNCHANGED track

\* gevent_del(eb, e)
gevent_del(eb_null, e) ==
    /\ Alive /\ pc = "idle" /\ base = "live"
    /\ IF e = NULL \/ eb_null
       THEN /\ ret' = Ret("gevent_del", -1)
            /\ UNCHANGED <<registered, ready>>
       ELSE /\ registered' = ops_del_set(registered, e)
            /\ ready' = ready \ {e}
            /\ ret' = Ret("gevent_del", ops_del_ret(registered, e))
    /\ UNCHANGED <<baseVars, pipeBytes, ev_array, thread, ev, tfd,
                   pc, apc, wpc, signals, faults, track, torn, drain_log, expirations, cb_count>>

\* gevent_del2 without its da_erase_item: the backend forgets the event, the
\* registry keeps it.
gevent_del2_no_erase(eb_null, h_null, v) ==
    /\ Alive /\ pc = "idle" /\ base = "live"
    /\ IF h_null \/ eb_null
       THEN /\ ret' = Ret("gevent_del2", -1)
            /\ UNCHANGED <<registered, ready, faults>>
       ELSE /\ registered' = ops_del_set(registered, v)
            /\ ready' = ready \ {v}
            /\ faults' = faults \cup ops_null_fault(v)
            /\ ret' = Ret("gevent_del2", ops_del_ret(registered, v))
    /\ UNCHANGED <<baseVars, pipeBytes, ev_array, thread, ev, tfd,
                   pc, apc, wpc, signals, torn, drain_log, expirations, cb_count>>

\* gevent_del2 that drops the registry's last entry, whichever event it
\* was asked to remove.
gevent_del2_erase_last(eb_null, h_null, v) ==
    /\ Alive /\ pc = "idle" /\ base = "live"
    /\ IF h_null \/ eb_null
       THEN /\ ret' = Ret("gevent_del2", -1)
            /\ UNCHANGED <<ev_array, registered, ready, faults>>
       ELSE /\ registered' = ops_del_set(registered, v)
            /\ ready' = ready \ {v}
            /\ faults' = faults \cup ops_null_fault(v)
            /\ ev_array' = IF Len(ev_array) > 0
                            THEN SubSeq(ev_array, 1, Len(ev_array) - 1)
                            ELSE ev_array
            /\ ret' = Ret("gevent_del2", ops_del_ret(registered, v))
    /\ UNCHANGED <<baseVars, pipeBytes, thread, ev, tfd,
                   pc, apc, wpc, signals, torn, drain_log, expirations, cb_count>>

\* gevent_del2(eb, e)
gevent_del2(eb_null, h_null, v) ==
    /\ Alive /\ pc = "idle" /\ base = "live"
    /\ IF h_null \/ eb_null
       THEN /\ ret' = Ret("gevent_del2", -1)
            /\ UNCHANGED <<ev_array, registered, ready, faults>>
       ELSE /\ registered' = ops_del_set(registered, v)
            /\ ready' = ready \ {v}
            /\ faults' = faults \cup ops_null_fault(v)
            /\ ev_array' = da_erase_item(ev_array, v)
            /\ ret' = Ret("gevent_del2", ops_del_ret(registered, v))
    /\ UNCHANGED <<baseVars, pipeBytes, thread, ev, tfd,
                   pc, apc, wpc, signals, torn, drain_log, expirations, cb_count>>

\* del_tracked: gevent_del2 called by the application.
del_tracked(eb_null, h_null, v) ==
    gevent_del2(eb_null, h_null, v) /\ UNCHANGED track

\* The round trip: each user event is tracked once, and removed once after
\* that, in any order.
RoundTripAdd(e) ==
    /\ track[e] = "never"
    /\ gevent_add2(FALSE, FALSE, e)
    /\ track' = [track EXCEPT ![e] = "added"]

RoundTripDel(e) ==
    /\ track[e] = "added"
    /\ gevent_del2(FALSE, FALSE, e)
    /\ track' = [track EXCEPT ![e] = "removed"]

\* ------------------------------------------------------- signal and break
\* Where the main thread may be while the aux thread calls into the base:
\* between calls, or inside gevent_base_wait, gevent_base_loop or
\* gevent_base_loop_stop (not inside gevent_base_destroy).
AuxMayCall ==
    {"idle", "wait", "loop_check", "loop_dispatch", "stop_write", "stop_join",
     "stop_destroy"}

\* write(eb->wfd, buf, 1)
pipe_write(n) == n + 1

\* gevent_base_signal written as gevent_base_loop_break is: it clears
\* eb->loop before it writes.
gevent_base_signal_as_break(eb_null) ==
    /\ Alive /\ apc = "idle" /\ base = "live" /\ pc \in AuxMayCall
    /\ IF eb_null
       THEN /\ faults' = faults \cup {"null_deref"}
            /\ UNCHANGED <<pipeBytes, signals, loop>>
       ELSE /\ MayWrite
            /\ loop' = FALSE
            /\ pipeBytes' = pipe_write(pipeBytes)
            /\ signals' = signals + 1
            /\ UNCHANGED faults
    /\ UNCHANGED <<base, rfd, wfd, ctx, inner_event, ev_array, thread, ev, tfd,
                   registered, ready, pc, apc, wpc, ret, track, torn, drain_log, expirations, cb_count>>

\* gevent_base_signal(eb), called by the aux thread.
gevent_base_signal(eb_null) ==
    /\ Alive /\ apc = "idle" /\ base = "live" /\ pc \in AuxMayCall
    /\ IF eb_null
       THEN /\ faults' = faults \cup {"null_deref"}
            /\ UNCHANGED <<pipeBytes, signals>>
       ELSE /\ MayWrite
            /\ pipeBytes' = pipe_write(pipeBytes)
            /\ signals' = signals + 1
            /\ UNCHANGED faults
    /\ UNCHANGED <<baseVars, ev_array, thread, ev, tfd, registered, ready,
                   pc, apc, wpc, ret, track, torn, drain_log, expirations, cb_count>>

\* gevent_base_loop_break(eb), called by the aux thread: eb->loop = 0 ...
gevent_base_loop_break ==
    /\ Alive /\ apc = "idle" /\ base = "live" /\ pc \in AuxMayCall
    /\ MayWrite
    /\ loop' = FALSE
    /\ apc' = "break_write"
    /\ UNCHANGED <<base, rfd, wfd, ctx, inner_event, pipeBytes, ev_array, thread,
                   ev, tfd, registered, ready, pc, wpc, ret, signals, faults, track, torn,
                   drain_log, expirations, cb_count>>

\* gevent_base_loop_break without its write: the flag is cleared, the pipe
\* gets no byte.
gevent_base_loop_break_no_write ==
    /\ Alive /\ apc = "break_write"
    /\ apc' = "idle"
    /\ UNCHANGED <<baseVars, pipeBytes, ev_array, thread, ev, tfd, registered, ready,
                   pc, wpc, ret, signals, faults, track, torn, drain_log,
                   expirations, cb_count>>

\* ... then write(eb->wfd, buf, 1).
gevent_base_loop_break_write ==
    /\ Alive /\ apc = "break_write"
    /\ pipeBytes' = pipe_write(pipeBytes)
    /\ apc' = "idle"
    /\ UNCHANGED <<baseVars, ev_array, thread, ev, tfd, registered, ready,
                   pc, wpc, ret, signals, faults, track, torn, drain_log, expirations, cb_count>>

\* ---------------------------------------------------------------- dispatch
\* A wakeup callback that reads the pipe empty.
event_in_reads(n) == 0

\* The internal wakeup event's callback: it reads nothing from the pipe.
event_in(n) == n

\* ops->dispatch(eb, NULL): the watched events whose descriptor is ready.
Fired ==
    {e \in registered :
        \/ e = InnerEv /\ rfd = "open" /\ pipeBytes > 0
        \/ e \in Events /\ e \in ready}

\* dispatch returns when a watched descriptor is ready, or at once with the
\* failure sentinel when the backend context is gone.
DispatchReturns == ctx # "open" \/ Fired # {}
DispatchResult == IF ctx # "open" THEN -1 ELSE Cardinality(Fired)
DispatchCbs == IF ctx # "open" THEN {} ELSE Fired
\* The events dispatch has consumed when it returns: those it has called
\* back that lack EVENT_PERSIST; the backend watches them no longer.
DispatchConsumed == {e \in DispatchCbs : EVENT_PERSIST \notin ev[e].flags}
\* The timer callbacks dispatch has invoked, counted per event.
DispatchCount(n) ==
    [e \in Events |-> IF e \in DispatchCbs /\ IsTimer(e) THEN n[e] + 1 ELSE n[e]]

\* gevent_base_wait(eb): the main thread enters dispatch ...
gevent_base_wait ==
    /\ Alive /\ pc = "idle" /\ base = "live" /\ wpc \in {"none", "exited"}
    /\ pc' = "wait"
    /\ UNCHANGED <<baseVars, pipeBytes, ev_array, thread, ev, tfd, registered,
                   ready, apc, wpc, ret, signals, faults, track, torn, drain_log, expirations, cb_count>>

\* ... and returns what dispatch returns.
gevent_base_wait_return ==
    /\ Alive /\ pc = "wait" /\ DispatchReturns
    /\ ready' = ready \ DispatchCbs
    /\ pipeBytes' = IF InnerEv \in DispatchCbs THEN event_in(pipeBytes) ELSE pipeBytes
    /\ registered' = registered \ DispatchConsumed
    /\ cb_count' = DispatchCount(cb_count)
    /\ ret' = Ret("gevent_base_wait", DispatchResult)
    /\ pc' = "idle"
    /\ UNCHANGED <<baseVars, ev_array, thread, ev, tfd,
                   apc, wpc, signals, faults, track, torn, drain_log, expirations>>

\* gevent_base_wait when ops->dispatch fails: the failure sentinel is what
\* gevent_base_wait returns.
gevent_base_wait_failed ==
    /\ Alive /\ pc = "wait"
    /\ ret' = Ret("gevent_base_wait", -1)
    /\ pc' = "idle"
    /\ UNCHANGED <<baseVars, pipeBytes, ev_array, thread, ev, tfd, registered, ready,
                   apc, wpc, signals, faults, track, torn, drain_log, expirations,
                   cb_count>>

\* ------------------------------------------------------- the loop, inline
\* gevent_base_loop(eb) called by the main thread itself.
gevent_base_loop ==
    /\ Alive /\ pc = "idle" /\ base = "live" /\ wpc \in {"none", "exited"}
    /\ pc' = "loop_check"
    /\ UNCHANGED <<baseVars, pipeBytes, ev_array, thread, ev, tfd, registered,
                   ready, apc, wpc, ret, signals, faults, track, torn, drain_log,
                   expirations, cb_count>>

\* while (eb->loop) ... return 0;
gevent_base_loop_inline_check ==
    /\ Alive /\ pc = "loop_check"
    /\ IF loop
       THEN pc' = "loop_dispatch" /\ ret' = ret
       ELSE pc' = "idle" /\ ret' = Ret("gevent_base_loop", 0)
    /\ UNCHANGED <<baseVars, pipeBytes, ev_array, thread, ev, tfd, registered,
                   ready, apc, wpc, signals, faults, track, torn, drain_log,
                   expirations, cb_count>>

\* gevent_base_loop that returns the failure sentinel when dispatch fails.
gevent_base_loop_inline_dispatch_fatal(failed) ==
    /\ Alive /\ pc = "loop_dispatch"
    /\ IF failed
       THEN /\ ret' = Ret("gevent_base_loop", -1)
            /\ pc' = "idle"
            /\ UNCHANGED <<ready, pipeBytes, registered, cb_count>>
       ELSE /\ DispatchReturns
            /\ ready' = ready \ DispatchCbs
            /\ pipeBytes' = IF InnerEv \in DispatchCbs THEN event_in(pipeBytes) ELSE pipeBytes
            /\ registered' = registered \ DispatchConsumed
            /\ cb_count' = DispatchCount(cb_count)
            /\ ret' = Ret("dispatch", DispatchResult)
            /\ pc' = "loop_check"
    /\ UNCHANGED <<baseVars, ev_array, thread, ev, tfd,
                   apc, wpc, signals, faults, track, torn, drain_log, expirations>>

\* ret = ops->dispatch(eb, NULL); if (ret == -1) printf(...); failed: the
\* backend's call fails. The local ret is kept in ret.
gevent_base_loop_inline_dispatch(failed) ==
    /\ Alive /\ pc = "loop_dispatch"
    /\ IF failed
       THEN /\ ret' = Ret("dispatch", -1)
            /\ UNCHANGED <<ready, pipeBytes, registered, cb_count>>
       ELSE /\ DispatchReturns
            /\ ready' = ready \ DispatchCbs
            /\ pipeBytes' = IF InnerEv \in DispatchCbs THEN event_in(pipeBytes) ELSE pipeBytes
            /\ registered' = registered \ DispatchConsumed
            /\ cb_count' = DispatchCount(cb_count)
            /\ ret' = Ret("dispatch", DispatchResult)
    /\ pc' = "loop_check"
    /\ UNCHANGED <<baseVars, ev_array, thread, ev, tfd,
                   apc, wpc, signals, faults, track, torn, drain_log, expirations>>

\* -------------------------------------------------------------- the worker
\* gevent_base_loop_start that sets eb->loop again before it creates the
\* thread.
gevent_base_loop_start_sets_flag ==
    /\ Alive /\ pc = "idle" /\ base = "live"
    /\ thread \in {"null", "destroyed"}
    /\ thread' = "valid"
    /\ wpc' = "check"
    /\ loop' = TRUE
    /\ ret' = Ret("gevent_base_loop_start", 0)
    /\ UNCHANGED <<base, rfd, wfd, ctx, inner_event, pipeBytes, ev_array, ev, tfd,
                   registered, ready, pc, apc, signals, faults, track, torn,
                   drain_log, expirations, cb_count>>

\* gevent_base_loop_start(eb): thread_create(_gevent_base_loop, eb).
gevent_base_loop_start ==
    /\ Alive /\ pc = "idle" /\ base = "live"
    /\ thread \in {"null", "destroyed"}
    /\ thread' = "valid"
    /\ wpc' = "check"
    /\ ret' = Ret("gevent_base_loop_start", 0)
    /\ UNCHANGED <<baseVars, pipeBytes, ev_array, ev, tfd, registered, ready,
                   pc, apc, signals, faults, track, torn, drain_log, expirations, cb_count>>

\* gevent_base_loop: while (eb->loop). A freed base is read with an
\* undefined result.
gevent_base_loop_check ==
    /\ Alive /\ wpc = "check"
    /\ IF base = "freed"
       THEN /\ faults' = faults \cup {"use_after_free"}
            /\ wpc' \in {"dispatch", "exited"}
       ELSE /\ wpc' = IF loop THEN "dispatch" ELSE "exited"
            /\ UNCHANGED faults
    /\ UNCHANGED <<baseVars, pipeBytes, ev_array, thread, ev, tfd, registered,
                   ready, pc, apc, ret, signals, track, torn, drain_log, expirations, cb_count>>

\* gevent_base_loop: ret = ops->dispatch(eb, NULL) returns.
gevent_base_loop_dispatch ==
    /\ Alive /\ wpc = "dispatch" /\ DispatchReturns
    /\ ready' = ready \ DispatchCbs
    /\ pipeBytes' = IF InnerEv \in DispatchCbs THEN event_in(pipeBytes) ELSE pipeBytes
    /\ registered' = registered \ DispatchConsumed
    /\ cb_count' = DispatchCount(cb_count)
    /\ faults' = IF base = "freed" THEN faults \cup {"use_after_free"} ELSE faults
    /\ wpc' = "check"
    /\ UNCHANGED <<baseVars, ev_array, thread, ev, tfd,
                   pc, apc, ret, signals, track, torn, drain_log, expirations>>

\* The descriptor of a watched I/O event becomes ready (data arrives).
fd_ready(e) ==
    /\ Alive /\ base = "live" /\ ev[e].st = "live" /\ ~IsTimer(e)
    /\ e \in registered /\ e \notin ready
    /\ ready' = ready \cup {e}
    /\ UNCHANGED <<baseVars, pipeBytes, ev_array, thread, ev, tfd, registered,
                   pc, apc, wpc, ret, signals, faults, track, torn, drain_log, expirations, cb_count>>

\* A period elapses on the timer descriptor of e, armed by timerfd_settime
\* with e's itimerspec: the first expiry comes after it_value, a further one
\* only when it_interval is not zero. The descriptor is then readable.
timer_expire(e) ==
    /\ Alive /\ ev[e].st = "live" /\ IsTimer(e) /\ tfd[e] = "open"
    /\ e \notin ready
    /\ expirations[e] < MaxFires
    /\ IF expirations[e] = 0
       THEN ev[e].itimer.it_value # 0
       ELSE ev[e].itimer.it_interval # 0
    /\ expirations' = [expirations EXCEPT ![e] = @ + 1]
    /\ ready' = ready \cup {e}
    /\ UNCHANGED <<baseVars, pipeBytes, ev_array, thread, ev, tfd, registered,
                   pc, apc, wpc, ret, signals, faults, track, torn, drain_log, cb_count>>


\* ------------------------------------------------------------------- stop
\* gevent_base_loop_stop that wakes the worker as gevent_base_signal does,
\* leaving eb->loop set.
gevent_base_loop_stop_signal_only ==
    /\ Alive /\ pc = "idle" /\ base = "live" /\ thread # "null"
    /\ MayWrite
    /\ pc' = "stop_write"
    /\ UNCHANGED <<baseVars, pipeBytes, ev_array, thread,
                   ev, tfd, registered, ready, apc, wpc, ret, signals, faults,
                   track, torn, drain_log, expirations, cb_count>>

\* gevent_base_loop_stop(eb): gevent_base_loop_break's eb->loop = 0 ...
gevent_base_loop_stop ==
    /\ Alive /\ pc = "idle" /\ base = "live" /\ thread # "null"
    /\ MayWrite
    /\ loop' = FALSE
    /\ pc' = "stop_write"
    /\ UNCHANGED <<base, rfd, wfd, ctx, inner_event, pipeBytes, ev_array, thread,
                   ev, tfd, registered, ready, apc, wpc, ret, signals, faults, track, torn,
                   drain_log, expirations, cb_count>>

\* ... and its write(eb->wfd, buf, 1) ...
gevent_base_loop_stop_write ==
    /\ Alive /\ pc = "stop_write"
    /\ pipeBytes' = pipe_write(pipeBytes)
    /\ pc' = "stop_join"
    /\ UNCHANGED <<baseVars, ev_array, thread, ev, tfd, registered, ready,
                   apc, wpc, ret, signals, faults, track, torn, drain_log, expirations, cb_count>>

\* gevent_base_loop_stop without its thread_join: it goes on to
\* thread_destroy whether or not the worker has exited.
gevent_base_loop_stop_no_join ==
    /\ Alive /\ pc = "stop_join"
    /\ pc' = "stop_destroy"
    /\ UNCHANGED <<baseVars, pipeBytes, ev_array, thread, ev, tfd, registered,
                   ready, apc, wpc, ret, signals, faults, track, torn, drain_log,
                   expirations, cb_count>>

\* ... thread_join(eb->thread): returns once the worker has exited; on a
\* handle that was destroyed already the call is undefined ...
gevent_base_loop_stop_join ==
    /\ Alive /\ pc = "stop_join"
    /\ IF thread = "valid"
       THEN /\ wpc = "exited"
            /\ UNCHANGED faults
       ELSE faults' = faults \cup {"thread_use_after_free"}
    /\ pc' = "stop_destroy"
    /\ UNCHANGED <<baseVars, pipeBytes, ev_array, thread, ev, tfd, registered,
                   ready, apc, wpc, ret, signals, track, torn, drain_log, expirations, cb_count>>

\* ... thread_destroy(eb->thread); return 0. eb->thread keeps its value.
gevent_base_loop_stop_destroy ==
    /\ Alive /\ pc = "stop_destroy"
    /\ faults' = IF thread = "destroyed" THEN faults \cup {"thread_double_free"} ELSE faults
    /\ thread' = "destroyed"
    /\ ret' = Ret("gevent_base_loop_stop", 0)
    /\ pc' = "idle"
    /\ UNCHANGED <<baseVars, pipeBytes, ev_array, ev, tfd, registered, ready,
                   apc, wpc, signals, track, torn, drain_log, expirations, cb_count>>

\* ---------------------------------------------------------------- destroy
UserEntries(arr) == {arr[i] : i \in 1..Len(arr)} \cap Events

\* gevent_base_destroy(eb): if (eb->loop) gevent_base_loop_break(eb), whose
\* first statement is eb->loop = 0.
gevent_base_destroy ==
    /\ Alive /\ pc = "idle" /\ apc = "idle" /\ base = "live"
    /\ loop => MayWrite
    /\ torn' = UserEntries(ev_array)
    /\ loop' = FALSE
    /\ pc' = IF loop THEN "destroy_write" ELSE "destroy_del"
    /\ UNCHANGED <<base, rfd, wfd, ctx, inner_event, pipeBytes, ev_array, thread,
                   ev, tfd, registered, ready, apc, wpc, ret, signals, faults,
                   drain_log, track, expirations, cb_count>>

\* gevent_base_loop_break's write(eb->wfd, buf, 1).
gevent_base_destroy_write ==
    /\ Alive /\ pc = "destroy_write"
    /\ pipeBytes' = pipe_write(pipeBytes)
    /\ pc' = "destroy_del"
    /\ UNCHANGED <<baseVars, ev_array, thread, ev, tfd, registered, ready,
                   apc, wpc, ret, signals, faults, track, torn, drain_log, expirations, cb_count>>

\* gevent_del2(eb, &eb->inner_event)
gevent_base_destroy_del ==
    /\ Alive /\ pc = "destroy_del"
    /\ registered' = ops_del_set(registered, inner_event)
    /\ ev_array' = da_erase_item(ev_array, inner_event)
    /\ pc' = "destroy_inner"
    /\ UNCHANGED <<baseVars, pipeBytes, thread, ev, tfd, ready,
                   apc, wpc, ret, signals, faults, track, torn, drain_log, expirations, cb_count>>

\* gevent_base_destroy going from gevent_destroy(eb->inner_event) straight
\* to eb->ops->deinit: the two close calls are left out.
gevent_base_destroy_inner_no_close ==
    /\ Alive /\ pc = "destroy_inner"
    /\ ev' = free_ev(ev, inner_event)
    /\ faults' = faults \cup free_fault(ev, inner_event)
    /\ pc' = "destroy_deinit"
    /\ UNCHANGED <<baseVars, pipeBytes, ev_array, thread, tfd, registered, ready,
                   apc, wpc, ret, signals, track, torn, drain_log, expirations, cb_count>>

\* gevent_destroy(eb->inner_event)
gevent_base_destroy_inner ==
    /\ Alive /\ pc = "destroy_inner"
    /\ ev' = free_ev(ev, inner_event)
    /\ faults' = faults \cup free_fault(ev, inner_event)
    /\ pc' = "destroy_close"
    /\ UNCHANGED <<baseVars, pipeBytes, ev_array, thread, tfd, registered, ready,
                   apc, wpc, ret, signals, track, torn, drain_log, expirations, cb_count>>

\* close(eb->rfd); close(eb->wfd); closing a descriptor that is not open is
\* recorded in faults.
gevent_base_destroy_close ==
    /\ Alive /\ pc = "destroy_close"
    /\ rfd' = "closed" /\ wfd' = "closed"
    /\ faults' = IF rfd = "open" /\ wfd = "open" THEN faults ELSE faults \cup {"bad_close"}
    /\ pc' = "destroy_deinit"
    /\ UNCHANGED <<base, ctx, loop, inner_event, pipeBytes, ev_array, thread,
                   ev, tfd, registered, ready, apc, wpc, ret, signals, track, torn,
                   drain_log, expirations, cb_count>>

\* eb->ops->deinit(eb->ctx)
gevent_base_destroy_deinit ==
    /\ Alive /\ pc = "destroy_deinit"
    /\ ctx' = "released"
    /\ pc' = "destroy_drain"
    /\ UNCHANGED <<base, rfd, wfd, loop, inner_event, pipeBytes, ev_array, thread,
                   ev, tfd, registered, ready, apc, wpc, ret, signals, faults, track, torn,
                   drain_log, expirations, cb_count>>

\* What the slot below the array's first element may hold: a word that is
\* no event of the program.
OutOfBoundsValues == {NULL, WILD}

\* One pass of do { e = array + num - 1; da_erase_item(ev_array, e);
\* free(*e); } while (num > 0). The erased slot keeps its content, so *e is
\* the element e pointed to; with num = 0, e points below the array.
gevent_base_destroy_drain ==
    /\ Alive /\ pc = "destroy_drain"
    /\ \E v \in (IF Len(ev_array) > 0 THEN {ev_array[Len(ev_array)]} ELSE OutOfBoundsValues) :
         /\ ev_array' = IF Len(ev_array) > 0 THEN da_erase_item(ev_array, v) ELSE ev_array
         /\ ev' = free_ev(ev, v)
         /\ faults' = faults \cup free_fault(ev, v)
                             \cup (IF Len(ev_array) = 0 THEN {"out_of_bounds"} ELSE {})
         /\ drain_log' = Append(drain_log, v)
    /\ pc' = IF Len(ev_array') > 0 THEN "destroy_drain" ELSE "destroy_free"
    /\ UNCHANGED <<baseVars, pipeBytes, thread, tfd, registered, ready,
                   apc, wpc, ret, signals, track, torn, expirations, cb_count>>

\* da_free(eb->ev_array); free(eb)
gevent_base_destroy_free ==
    /\ Alive /\ pc = "destroy_free"
    /\ base' = "freed"
    /\ ret' = Ret("gevent_base_destroy", 0)
    /\ pc' = "idle"
    /\ UNCHANGED <<rfd, wfd, ctx, loop, inner_event, pipeBytes, ev_array, thread,
                   ev, tfd, registered, ready, apc, wpc, signals, faults, track, torn,
                   drain_log, expirations, cb_count>>

\* ------------------------------------------------------------ the program
LiveEvents == {e \in Events : ev[e].st = "live"}
\* The arguments the application passes.
IoArgs == {<<TRUE, FALSE, FALSE>>}
AllIoArgs == {<<a, b, c>> : a \in BOOLEAN, b \in BOOLEAN, c \in BOOLEAN}
TimerTypes == {TIMER_PERSIST, TIMER_ONESHOT}
TimerOutcomes == {"ok", "calloc", "timerfd_create", "timerfd_settime"}

\* gevent_base_destroy, statement by statement.
Teardown ==
    \/ gevent_base_destroy
    \/ gevent_base_destroy_write
    \/ gevent_base_destroy_del
    \/ gevent_base_destroy_inner
    \/ gevent_base_destroy_close
    \/ gevent_base_destroy_deinit
    \/ gevent_base_destroy_drain
    \/ gevent_base_destroy_free

\* The single-threaded API: events are created, registered, removed and
\* destroyed, with valid and with NULL arguments, and the base is torn down.
Next ==
    \/ gevent_base_create(TRUE, TRUE, TRUE)
    \/ \E a \in IoArgs : gevent_create(a[1], a[2], a[3], TRUE)
    \/ gevent_timer_create(TIMER_PERSIST, "ok")
    \/ \E e \in Events : gevent_destroy(e)
    \/ \E e \in Events : gevent_timer_destroy(e)
    \/ \E eb_null \in BOOLEAN, e \in LiveEvents \cup {NULL} : gevent_add(eb_null, e)
    \/ \E eb_null \in BOOLEAN, e \in LiveEvents \cup {NULL} : gevent_del(eb_null, e)
    \/ \E eb_null \in BOOLEAN, e \in LiveEvents \cup {NULL} : add_tracked(eb_null, FALSE, e)
    \/ \E eb_null \in BOOLEAN : add_tracked(eb_null, TRUE, NULL)
    \/ \E eb_null \in BOOLEAN, e \in LiveEvents \cup {NULL} : del_tracked(eb_null, FALSE, e)
    \/ \E eb_null \in BOOLEAN : del_tracked(eb_null, TRUE, NULL)
    \/ \E eb_null \in BOOLEAN : gevent_base_signal(eb_null)
    \/ Teardown

Spec == Init /\ [][Next]_vars

\* The constructors with every outcome of the calls they make.
NextCreate ==
    \/ \E pipe_ok \in BOOLEAN, calloc_ok \in BOOLEAN, inner_ok \in BOOLEAN :
         gevent_base_create(pipe_ok, calloc_ok, inner_ok)
    \/ \E a \in AllIoArgs, ok \in BOOLEAN : gevent_create(a[1], a[2], a[3], ok)
    \/ \E t \in TimerTypes, o \in TimerOutcomes : gevent_timer_create(t, o)
    \/ \E e \in Events : gevent_destroy(e)
    \/ \E e \in Events : gevent_timer_destroy(e)

SpecCreate == Init /\ [][NextCreate]_vars

\* The round trip on the registry: I/O events are created, each is tracked
\* and then removed.
NextRoundTrip ==
    \/ gevent_base_create(TRUE, TRUE, TRUE)
    \/ \E a \in AllIoArgs : gevent_create(a[1], a[2], a[3], TRUE)
    \/ \E e \in LiveEvents : RoundTripAdd(e)
    \/ \E e \in LiveEvents : RoundTripDel(e)

SpecRoundTrip == Init /\ [][NextRoundTrip]_vars

\* The loop: a worker thread runs gevent_base_loop while the main thread
\* registers events, waits, stops the worker and tears the base down, and
\* the aux thread signals and breaks.
NextLoop ==
    \/ gevent_base_create(TRUE, TRUE, TRUE)
    \/ \E a \in IoArgs : gevent_create(a[1], a[2], a[3], TRUE)
    \/ \E e \in LiveEvents : add_tracked(FALSE, FALSE, e)
    \/ \E e \in LiveEvents : del_tracked(FALSE, FALSE, e)
    \/ \E e \in Events : fd_ready(e)
    \/ gevent_base_signal(FALSE)
    \/ gevent_base_loop_break
    \/ gevent_base_loop_break_write
    \/ gevent_base_wait
    \/ gevent_base_wait_return
    \/ gevent_base_loop_start
    \/ gevent_base_loop_check
    \/ gevent_base_loop_dispatch
    \/ gevent_base_loop_stop
    \/ gevent_base_loop_stop_write
    \/ gevent_base_loop_stop_join
    \/ gevent_base_loop_stop_destroy
    \/ Teardown

SpecLoop == Init /\ [][NextLoop]_vars

\* A thread that has entered a function keeps executing it, and the worker
\* thread keeps running; the application need not call anything.
LoopFairness ==
    /\ WF_vars(gevent_base_loop_check)
    /\ WF_vars(gevent_base_loop_dispatch)
    /\ WF_vars(gevent_base_wait_return)
    /\ WF_vars(gevent_base_loop_break_write)
    /\ WF_vars(gevent_base_loop_stop_write)
    /\ WF_vars(gevent_base_loop_stop_join)
    /\ WF_vars(gevent_base_loop_stop_destroy)
    /\ WF_vars(gevent_base_destroy_write \/ gevent_base_destroy_del
               \/ gevent_base_destroy_inner \/ gevent_base_destroy_close
               \/ gevent_base_destroy_deinit \/ gevent_base_destroy_drain
               \/ gevent_base_destroy_free)

SpecLoopFair == SpecLoop /\ LoopFairness

\* The worker: the main thread starts and stops the worker thread, the aux
\* thread signals and breaks; nobody calls gevent_base_wait or
\* gevent_base_loop inline, and the base is not torn down.
NextWorker ==
    \/ gevent_base_create(TRUE, TRUE, TRUE)
    \/ \E a \in IoArgs : gevent_create(a[1], a[2], a[3], TRUE)
    \/ \E e \in LiveEvents : add_tracked(FALSE, FALSE, e)
    \/ \E e \in Events : fd_ready(e)
    \/ gevent_base_signal(FALSE)
    \/ gevent_base_loop_break
    \/ gevent_base_loop_break_write
    \/ gevent_base_loop_start
    \/ gevent_base_loop_check
    \/ gevent_base_loop_dispatch
    \/ gevent_base_loop_stop
    \/ gevent_base_loop_stop_write
    \/ gevent_base_loop_stop_join
    \/ gevent_base_loop_stop_destroy

SpecWorker == Init /\ [][NextWorker]_vars

\* Every thread that is inside a function keeps executing it.
WorkerFairness ==
    /\ WF_vars(gevent_base_loop_check)
    /\ WF_vars(gevent_base_loop_dispatch)
    /\ WF_vars(gevent_base_loop_break_write)
    /\ WF_vars(gevent_base_loop_stop_write)
    /\ WF_vars(gevent_base_loop_stop_join)
    /\ WF_vars(gevent_base_loop_stop_destroy)

SpecWorkerFair == SpecWorker /\ WorkerFairness

\* The loop run inline: the main thread calls gevent_base_wait and
\* gevent_base_loop itself, dispatch may fail, the aux thread signals and
\* breaks.
NextInline ==
    \/ gevent_base_create(TRUE, TRUE, TRUE)
    \/ \E a \in IoArgs : gevent_create(a[1], a[2], a[3], TRUE)
    \/ \E e \in LiveEvents : add_tracked(FALSE, FALSE, e)
    \/ \E e \in Events : fd_ready(e)
    \/ gevent_base_signal(FALSE)
    \/ gevent_base_loop_break
    \/ gevent_base_loop_break_write
    \/ gevent_base_wait
    \/ gevent_base_wait_return
    \/ gevent_base_wait_failed
    \/ gevent_base_loop
    \/ gevent_base_loop_inline_check
    \/ \E failed \in BOOLEAN : gevent_base_loop_inline_dispatch(failed)

SpecInline == Init /\ [][NextInline]_vars

\* The registry: events are created and are added and removed, tracked and
\* untracked, with valid and with NULL arguments.
NextRegistry ==
    \/ gevent_base_create(TRUE, TRUE, TRUE)
    \/ \E a \in IoArgs : gevent_create(a[1], a[2], a[3], TRUE)
    \/ \E eb_null \in BOOLEAN, e \in LiveEvents \cup {NULL} : gevent_add(eb_null, e)
    \/ \E eb_null \in BOOLEAN, e \in LiveEvents \cup {NULL} : gevent_del(eb_null, e)
    \/ \E eb_null \in BOOLEAN, e \in LiveEvents \cup {NULL} : add_tracked(eb_null, FALSE, e)
    \/ \E eb_null \in BOOLEAN : add_tracked(eb_null, TRUE, NULL)
    \/ \E eb_null \in BOOLEAN, e \in LiveEvents \cup {NULL} : del_tracked(eb_null, FALSE, e)
    \/ \E eb_null \in BOOLEAN : del_tracked(eb_null, TRUE, NULL)

SpecRegistry == Init /\ [][NextRegistry]_vars

\* Restarting: the loop is run by a worker and inline, stopped, broken and
\* run again, and the base is torn down.
NextRestart ==
    \/ gevent_base_create(TRUE, TRUE, TRUE)
    \/ gevent_base_signal(FALSE)
    \/ gevent_base_loop_break
    \/ gevent_base_loop_break_write
    \/ gevent_base_loop
    \/ gevent_base_loop_inline_check
    \/ \E failed \in BOOLEAN : gevent_base_loop_inline_dispatch(failed)
    \/ gevent_base_loop_start
    \/ gevent_base_loop_check
    \/ gevent_base_loop_dispatch
    \/ gevent_base_loop_stop
    \/ gevent_base_loop_stop_write
    \/ gevent_base_loop_stop_join
    \/ gevent_base_loop_stop_destroy
    \/ Teardown

SpecRestart == Init /\ [][NextRestart]_vars

\* The registry up to the teardown of the base.
NextTracked ==
    \/ NextRegistry
    \/ Teardown

SpecTracked == Init /\ [][NextTracked]_vars

\* Teardown: events are created, tracked and removed, the loop flag may
\* have been cleared already, and the base is torn down.
NextTeardown ==
    \/ gevent_base_create(TRUE, TRUE, TRUE)
    \/ \E a \in IoArgs : gevent_create(a[1], a[2], a[3], TRUE)
    \/ gevent_timer_create(TIMER_PERSIST, "ok")
    \/ \E e \in LiveEvents : add_tracked(FALSE, FALSE, e)
    \/ \E e \in LiveEvents : del_tracked(FALSE, FALSE, e)
    \/ gevent_base_loop_break
    \/ gevent_base_loop_break_write
    \/ Teardown

SpecTeardown == Init /\ [][NextTeardown]_vars

\* Timers: timer events of both recurrences are created, each is tracked
\* once, periods elapse, and the main thread calls gevent_base_wait.
NextTimer ==
    \/ gevent_base_create(TRUE, TRUE, TRUE)
    \/ \E t \in TimerTypes : gevent_timer_create(t, "ok")
    \/ \E e \in LiveEvents : RoundTripAdd(e)
    \/ \E e \in LiveEvents : RoundTripDel(e)
    \/ \E e \in Events : timer_expire(e)
    \/ gevent_base_signal(FALSE)
    \/ gevent_base_wait
    \/ gevent_base_wait_return

SpecTimer == Init /\ [][NextTimer]_vars


\* ================================================================== claims
Occurrences(seq, v) == Cardinality({i \in 1..Len(seq) : seq[i] = v})

\* C1: after gevent_base_destroy, every user event that was in the registry
\* when teardown began has been released exactly once by the drain: its
\* memory is freed, a timer event's descriptor is closed, and nothing was
\* freed twice.
C1_TeardownReleasesOnce ==
    base = "freed" =>
        /\ \A e \in torn :
             /\ Occurrences(drain_log, e) = 1
             /\ ev[e].st = "freed"
             /\ IsTimer(e) => tfd[e] = "closed"
        /\ "double_free" \notin faults

\* C2: when the registry holds no user entry at teardown, the drain reads no
\* slot outside the array and passes nothing to free().
C2_EmptyDrainTouchesNothing ==
    (pc = "destroy_free" /\ torn = {} /\ "backend_null_event" \notin faults) =>
        /\ "out_of_bounds" \notin faults
        /\ drain_log = <<>>

\* C3: once teardown has released the backend context or freed the base, the
\* worker thread is neither inside dispatch nor about to read eb->loop.
C3_TeardownStopsWorkerFirst ==
    (ctx = "released" \/ base = "freed") => wpc \notin {"check", "dispatch"}

\* C5: gevent_base_loop_stop never joins or destroys a thread handle that an
\* earlier gevent_base_loop_stop has already joined and destroyed.
C5_SecondStopIsNoop ==
    /\ "thread_use_after_free" \notin faults
    /\ "thread_double_free" \notin faults

\* C8: NULL arguments are rejected without effect: no call dereferences a
\* NULL base, the backend is never handed a NULL event, and the registry
\* never holds NULL.
C8_InvalidArgsRejected ==
    /\ "null_deref" \notin faults
    /\ "backend_null_event" \notin faults
    /\ ~InArray(NULL)

\* C9: a failed gevent_base_create leaves no pipe descriptor and no backend
\* context open.
C9_CreateUnwinds ==
    base = "failed" => rfd # "open" /\ wfd # "open" /\ ctx # "open"

\* C10: after gevent_timer_create has returned NULL, no timer descriptor is
\* open whose event is not live.
C10_TimerCreateCleansUp ==
    ret = Ret("gevent_timer_create", NULL) =>
        \A e \in Events : ev[e].st # "live" => tfd[e] # "open"


\* C4: gevent_base_loop_stop on a running worker returns only after the
\* worker has left gevent_base_loop and exited, and it does return.
StopPcs == {"stop_write", "stop_join", "stop_destroy"}

C4_StopJoinsWorker ==
    /\ [][(pc = "stop_destroy" /\ pc' = "idle" /\ thread = "valid") => wpc = "exited"]_vars
    /\ (pc \in StopPcs /\ thread = "valid") ~> (pc = "idle" /\ thread = "destroyed")

\* A first gevent_base_loop_stop has returned: the worker has exited and its
\* handle is released.
C4_Witness ==
    /\ ret = Ret("gevent_base_loop_stop", 0) /\ pc = "idle"
    /\ thread = "destroyed" /\ wpc = "exited"
    /\ "thread_use_after_free" \notin faults

\* The user callbacks a dispatch call runs now.
UserCallbacks == DispatchCbs \cap Events

\* C6: a signal is a wakeup that is not lost: it adds one byte to the pipe
\* and leaves eb->loop alone; once a signal was sent every dispatch call
\* returns, in the worker's loop and in gevent_base_wait; and a dispatch
\* call runs the callbacks of those user events only whose own descriptor is
\* ready.
C6_SignalWakes ==
    /\ [][signals' = signals + 1 => (pipeBytes' = pipeBytes + 1 /\ loop' = loop)]_vars
    /\ (signals > 0 /\ wpc = "dispatch") ~> (wpc # "dispatch")
    /\ (signals > 0 /\ pc = "wait") ~> (pc = "idle")
    /\ [](UserCallbacks \subseteq ready)

\* gevent_base_wait has returned after a signal having run the internal
\* callback only, with a user event registered and the loop flag still set.
C6_Witness ==
    /\ signals > 0 /\ loop
    /\ ret = Ret("gevent_base_wait", 1) /\ pc = "idle"
    /\ registered \cap Events # {}
    /\ ready = {}

\* C7: when every user event that was tracked has been removed again, the
\* registry holds exactly the internal event, as after gevent_base_create.
C7_RoundTrip ==
    (base = "live" /\ \A e \in Events : track[e] # "added") =>
        ev_array = <<InnerEv>>

\* All MaxEvents events have been tracked and removed.
C7_Witness ==
    /\ base = "live"
    /\ \A e \in Events : track[e] = "removed"
    /\ Len(ev_array) = 1

\* C11: a TIMER_ONESHOT event is not re-armed: its descriptor expires once,
\* and its callback is invoked at most once however many periods elapse and
\* however often dispatch is called; a TIMER_PERSIST event stays watched
\* when its callback has been invoked.
OneShots == {e \in Events : ev[e].st = "live" /\ IsTimer(e) /\ EVENT_PERSIST \notin ev[e].flags}
Persistents == {e \in Events : ev[e].st = "live" /\ IsTimer(e) /\ EVENT_PERSIST \in ev[e].flags}

C11_OneShotFiresOnce ==
    /\ \A e \in OneShots : cb_count[e] <= 1 /\ expirations[e] <= 1
    /\ \A e \in Persistents : cb_count[e] > 0 /\ track[e] = "added" => e \in registered

\* C12: both pipe descriptors are closed exactly once, by gevent_base_destroy
\* and by nothing else, and gevent_base_destroy runs its steps in the order
\* break the loop, remove and free the internal event, close the pipe,
\* release the backend context, drain the registry, free the base; each step
\* finds the resource it uses not yet released.
DestroyOrder ==
    {<<"idle", "destroy_write">>, <<"idle", "destroy_del">>,
     <<"destroy_write", "destroy_del">>, <<"destroy_del", "destroy_inner">>,
     <<"destroy_inner", "destroy_close">>, <<"destroy_close", "destroy_deinit">>,
     <<"destroy_deinit", "destroy_drain">>, <<"destroy_drain", "destroy_free">>,
     <<"destroy_free", "idle">>}
DestroyPcs == {p[1] : p \in DestroyOrder} \ {"idle"}

DestroyStepFindsResource ==
    /\ pc = "destroy_write" => wfd = "open"
    /\ pc = "destroy_del" => ctx = "open" /\ ev[inner_event].st = "live"
    /\ pc = "destroy_inner" => ev[inner_event].st = "live" /\ ~InArray(inner_event)
    /\ pc = "destroy_close" => rfd = "open" /\ wfd = "open"
    /\ pc = "destroy_deinit" => ctx = "open"
    /\ pc = "destroy_drain" => base = "live" /\ ~InArray(inner_event)
    /\ pc = "destroy_free" => base = "live"

C12_PipeClosedOnceInOrder ==
    /\ [][(rfd' # rfd /\ rfd' = "closed") \/ (wfd' # wfd /\ wfd' = "closed")
            => /\ pc = "destroy_close"
               /\ rfd = "open" /\ wfd = "open"
               /\ rfd' = "closed" /\ wfd' = "closed"]_vars
    /\ [][(pc' # pc /\ (pc \in DestroyPcs \/ pc' \in DestroyPcs))
            => <<pc, pc'>> \in DestroyOrder]_vars
    /\ [][(pc = "idle" /\ pc' \in DestroyPcs) => ~loop']_vars
    /\ [](DestroyStepFindsResource)
    /\ [](base = "freed" => rfd = "closed" /\ wfd = "closed" /\ ctx = "released")
    /\ []("bad_close" \notin faults)

\* gevent_base_destroy has returned for a base that tracked a user event.
C12_Witness ==
    /\ base = "freed" /\ ret = Ret("gevent_base_destroy", 0)
    /\ rfd = "closed" /\ wfd = "closed" /\ ctx = "released"
    /\ torn # {}

\* C13: when gevent_base_loop_start is never called twice without a
\* gevent_base_loop_stop in between, at most one thread is inside dispatch:
\* whenever the base has no started worker (none yet, or the last one was
\* stopped), no worker thread is inside gevent_base_loop, so a newly started
\* worker is the only thread that dispatches.
Dispatchers ==
    (IF wpc = "dispatch" THEN {"worker"} ELSE {})
    \cup (IF pc = "wait" THEN {"main"} ELSE {})

C13_OneDispatcher ==
    /\ Cardinality(Dispatchers) <= 1
    /\ thread # "valid" => wpc \in {"none", "exited"}

\* A worker that has dispatched a user event was stopped; a new one may be
\* started.
C13_Witness ==
    /\ thread = "destroyed" /\ wpc = "exited" /\ pc = "idle"
    /\ ret = Ret("gevent_base_loop_stop", 0)
    /\ registered \cap Events # {} /\ signals > 0
    /\ faults = {}

\* C14: once eb->loop is cleared, gevent_base_loop enters dispatch no more:
\* its next check of the flag ends the loop; and a worker that is inside
\* dispatch when the flag is cleared (its check came before the clearing)
\* does not stay there: the wakeup byte makes that dispatch return and the
\* worker leaves the loop.
C14_BreakEndsLoop ==
    /\ [][(~loop /\ wpc = "check" /\ wpc' # wpc) => wpc' = "exited"]_vars
    /\ (~loop /\ wpc = "dispatch") ~> (wpc = "exited")

\* The aux thread's gevent_base_loop_break has ended the loop of a started
\* worker that nobody has stopped.
C14_Witness ==
    /\ ~loop /\ wpc = "exited" /\ thread = "valid"
    /\ pc = "idle" /\ apc = "idle"
    /\ pipeBytes = 1 /\ signals = 0

\* C15: gevent_base_loop returns only when eb->loop is false and its result
\* is always 0; whatever dispatch returns, the failure sentinel included,
\* the loop goes back to its check and calls dispatch again while the flag
\* is set; gevent_base_wait makes one dispatch call, returns what that call
\* returned and leaves eb->loop as it was.
C15_LoopRunsUntilFlagClear ==
    /\ [][(pc = "loop_check" /\ pc' = "idle")
            => ~loop /\ ret' = Ret("gevent_base_loop", 0)]_vars
    /\ [][(pc = "loop_check" /\ loop /\ pc' # pc) => pc' = "loop_dispatch"]_vars
    /\ [][(pc = "loop_dispatch" /\ pc' # pc) => pc' = "loop_check"]_vars
    /\ [](ret[1] = "gevent_base_loop" => ret[2] = 0)
    /\ [][(pc = "wait" /\ pc' # pc)
            => /\ pc' = "idle" /\ loop' = loop
               /\ ret'[1] = "gevent_base_wait"
               /\ ret'[2] \in {-1, DispatchResult}]_vars

\* gevent_base_loop has called dispatch again after a dispatch call that
\* returned the failure sentinel.
C15_Witness ==
    /\ pc = "loop_dispatch" /\ ret = Ret("dispatch", -1) /\ loop

\* C16: gevent_del2 of an event takes out of the registry one entry that
\* holds that very event and leaves the other entries in the order they
\* had; when no entry holds it, the registry stays as it is.
RemovedOne(old, new, v) ==
    \E i \in 1..Len(old) :
        /\ old[i] = v
        /\ new = SubSeq(old, 1, i - 1) \o SubSeq(old, i + 1, Len(old))

C16_DelTrackedRemovesOne ==
    [][\A v \in Ptr :
          del_tracked(FALSE, FALSE, v)
            => IF InArray(v)
               THEN RemovedOne(ev_array, ev_array', v)
               ELSE ev_array' = ev_array]_vars

\* gevent_del2 has removed an entry and a user entry remains behind the
\* internal event.
C16_Witness ==
    /\ ret = Ret("gevent_del2", 0)
    /\ Len(ev_array) = 2 /\ ev_array[1] = InnerEv /\ ev_array[2] \in Events

\* C17: the flags of an event follow from the arguments it was created
\* with. gevent_create: EVENT_READ, EVENT_WRITE and EVENT_ERROR each exactly
\* when the callback of that kind is given, EVENT_PERSIST always, no timer
\* callback. gevent_timer_create: EVENT_READ, and EVENT_PERSIST exactly when
\* the type is TIMER_PERSIST, the timer callback and no I/O callback.
Given(ev_in, ev_out, ev_err) ==
    {k \in {"ev_in", "ev_out", "ev_err"} :
        \/ k = "ev_in" /\ ev_in
        \/ k = "ev_out" /\ ev_out
        \/ k = "ev_err" /\ ev_err}

FlagOf(k) ==
    CASE k = "ev_in" -> EVENT_READ
      [] k = "ev_out" -> EVENT_WRITE
      [] k = "ev_err" -> EVENT_ERROR

Created(e) == ev[e].st = "unalloc" /\ ev'[e].st = "live"

C17_FlagsFollowArguments ==
    /\ [][\A a \in AllIoArgs :
             gevent_create(a[1], a[2], a[3], TRUE)
               => \E e \in Events :
                    /\ Created(e)
                    /\ ev'[e].cb = Given(a[1], a[2], a[3])
                    /\ ev'[e].flags = {FlagOf(k) : k \in Given(a[1], a[2], a[3])}
                                        \cup {EVENT_PERSIST}]_vars
    /\ [][\A t \in TimerTypes :
             gevent_timer_create(t, "ok")
               => \E e \in Events :
                    /\ Created(e)
                    /\ ev'[e].cb = {"ev_timer"}
                    /\ ev'[e].flags = IF t = TIMER_PERSIST
                                       THEN {EVENT_READ, EVENT_PERSIST}
                                       ELSE {EVENT_READ}]_vars
    /\ [](\A e \in Events :
             ev[e].st = "live"
               => \/ ev[e].cb = {"ev_timer"}
                  \/ "ev_timer" \notin ev[e].cb /\ EVENT_PERSIST \in ev[e].flags)

\* A one-shot timer event and an I/O event created with the writable and
\* the error callback only are both live.
C17_Witness ==
    /\ \E e \in Events :
         ev[e].st = "live" /\ IsTimer(e) /\ ev[e].flags = {EVENT_READ}
    /\ \E e \in Events :
         /\ ev[e].st = "live" /\ ev[e].cb = {"ev_out", "ev_err"}
         /\ ev[e].flags = {EVENT_WRITE, EVENT_ERROR, EVENT_PERSIST}

\* C18: eb->loop is set by gevent_base_create and by nothing else, and it is
\* cleared only by gevent_base_loop_break, called directly, by
\* gevent_base_loop_stop or by gevent_base_destroy; once it is cleared, a
\* loop that checks it, in a worker or inline, started before or after,
\* returns without entering dispatch.
C18_LoopFlagMonotone ==
    /\ [][loop' => (loop \/ (base = "none" /\ base' = "live"))]_vars
    /\ [][(base = "none" /\ base' = "live") => loop']_vars
    /\ [][(loop /\ ~loop')
            => \/ apc = "idle" /\ apc' = "break_write"
               \/ pc = "idle" /\ pc' \in {"stop_write", "destroy_write"}]_vars
    /\ [][(base = "live" /\ ~loop /\ wpc = "check" /\ wpc' # wpc)
            => wpc' = "exited"]_vars
    /\ [][(base = "live" /\ ~loop /\ pc = "loop_check" /\ pc' # pc)
            => pc' = "idle" /\ ret' = Ret("gevent_base_loop", 0)]_vars

\* gevent_base_loop, called after a worker was started and stopped, has
\* returned.
C18_Witness ==
    /\ ret = Ret("gevent_base_loop", 0) /\ pc = "idle"
    /\ thread = "destroyed" /\ ~loop /\ base = "live"
    /\ "thread_use_after_free" \notin faults

\* C19: nothing reads the wakeup pipe: on a live base the number of unread
\* bytes never goes down, it goes up by one with each gevent_base_signal and
\* each gevent_base_loop_break and with nothing else, and once a byte is in
\* the pipe the internal event is ready in every dispatch call.
C19_PipeNeverDrained ==
    /\ [][pipeBytes' >= pipeBytes]_vars
    /\ [][pipeBytes' # pipeBytes
            => /\ pipeBytes' = pipeBytes + 1
               /\ \/ signals' = signals + 1
                  \/ apc = "break_write" /\ apc' = "idle"]_vars
    /\ [][(signals' # signals \/ (apc = "break_write" /\ apc' = "idle"))
            => pipeBytes' = pipeBytes + 1]_vars
    /\ []((pipeBytes > 0 /\ pc \in {"wait", "loop_dispatch"}) => InnerEv \in Fired)

\* gevent_base_loop is inside dispatch again after a dispatch call that ran
\* the internal callback alone, and the byte is still in the pipe.
C19_Witness ==
    /\ pc = "loop_dispatch" /\ ret = Ret("dispatch", 1)
    /\ registered = {InnerEv}
    /\ pipeBytes = 1 /\ signals = 1 /\ loop

\* C20: gevent_add2 with valid arguments appends the event to the registry
\* whatever the backend's add returns, and returns what the backend's add
\* returned; an event that is tracked already gets a second entry; every
\* user event in the registry when gevent_base_destroy begins has been
\* freed when it returns; gevent_add and gevent_del leave the registry as
\* it is.
C20_AddTrackedNeverRollsBack ==
    /\ [][\A v \in Ptr :
             add_tracked(FALSE, FALSE, v)
               => /\ ev_array' = ev_array \o <<v>>
                  /\ ret' = Ret("gevent_add2", ops_add_ret(registered, v))]_vars
    /\ [][(\E eb_null \in BOOLEAN, e \in Ptr :
               gevent_add(eb_null, e) \/ gevent_del(eb_null, e))
            => ev_array' = ev_array]_vars
    /\ [](base = "freed" => \A e \in torn : ev[e].st = "freed")

\* The backend has refused an event that it watches already, and the
\* registry holds the event twice.
C20_Witness ==
    /\ ret = Ret("gevent_add2", -1) /\ base = "live"
    /\ \E e \in Events : Occurrences(ev_array, e) = 2 /\ e \in registered

====
